---- MODULE Spec2Model ----
(***************************************************************************)
(* Model of the reconciliation core of NeelSPN (src/app.py): name          *)
(* normalisation, matchup keys, the per-event odds reducer, the schedule   *)
(* filters, the schedule/odds join pass and the live-odds path.            *)
(*                                                                         *)
(* Python strings are sequences of one-character strings, so that          *)
(* lower(), isalnum(), split()/join() and the substring test `in` are      *)
(* computed and not assumed.  An optional number is <<>> (None) or <<n>>.  *)
(* A call that can raise returns [exc |-> name, val |-> value]; exc is     *)
(* "none" when the call returned.                                          *)
(***************************************************************************)
EXTENDS Integers, Sequences, FiniteSets, TLC

VARIABLES
    k_pc, k_away, k_home, k_iso, k_result,       \* a call of _make_matchup_key
    \* a call of summarize_odds_for_event, one outcome of the traversal a step
    r_pc, r_home, r_away,                        \* position; home, away
    r_book, r_key, r_n,                          \* bookmaker, market key, outcomes read
    r_best,                                      \* best_home_ml .. best_total
    r_result,                                    \* the summary returned
    h_firstHome, h_firstAway,                    \* history: first priced h2h quote per side
    h_lastOver,                                  \* history: last priced Over of a totals market
    h_under,                                     \* history: a priced Under came before any Over
    shadow_total,                                \* best_total of the same traversal without Unders
    f_pc, f_team, f_events, f_result,            \* a call of filter_team_events
    \* render_scores_and_schedule
    j_pc, j_cfg, j_api_key,                      \* position; the subject; a credential is present
    j_feed, j_events, j_slams,                   \* schedule feed; events kept; filter_grand_slams ran
    j_data, j_odds_map, j_built,                 \* odds payload; the index; get_event_odds_map returned
    j_rows, j_i, j_exc,                          \* rows; loop index; the exception that ended the pass
    \* render_odds_summary and get_live_odds_internal
    l_pc, l_cfg, l_api_key,                      \* position; the subject; a credential is present
    l_isList, l_best, l_n,                       \* payload is a list; best_playoff, best_title; outcomes read
    l_odds, l_shown,                             \* the dict returned; what the panel shows
    \* get_event_odds_map
    i_pc, i_seen, i_out, i_exc                   \* position; events processed; out; the exception raised

keyVars == <<k_pc, k_away, k_home, k_iso, k_result>>
reduceVars == <<r_pc, r_home, r_away, r_book, r_key, r_n, r_best, r_result,
                h_firstHome, h_firstAway, h_lastOver, h_under, shadow_total>>
filterVars == <<f_pc, f_team, f_events, f_result>>
joinVars == <<j_pc, j_cfg, j_api_key, j_feed, j_events, j_slams, j_data, j_odds_map,
              j_built, j_rows, j_i, j_exc>>
liveVars == <<l_pc, l_cfg, l_api_key, l_isList, l_best, l_n, l_odds, l_shown>>
indexVars == <<i_pc, i_seen, i_out, i_exc>>
vars == <<keyVars, reduceVars, filterVars, joinVars, liveVars, indexVars>>

-----------------------------------------------------------------------------
(* Bounds of the model *)

\* longest name string given to _make_matchup_key
MaxLen == 2
\* outcomes read in one traversal of an odds event
MaxQuotes == 3
\* bookmakers of one odds event
MaxBooks == 2
\* events given to filter_team_events
MaxFilterEvents == 2
\* events of the schedule feed, and of the odds feed
MaxSched == 2
MaxOdds == 2
\* outcomes read by get_live_odds_internal
MaxLiveQuotes == 2
\* odds events in the payload of get_event_odds_map
MaxIndexEvents == 3

-----------------------------------------------------------------------------
(* Python values *)

Ok(v) == [exc |-> "none", val |-> v]
Exc(e) == [exc |-> e, val |-> <<>>]

\* None where a string is expected (a JSON null)
NoneS == <<"None">>
\* a key that is absent from a dict, where a string is expected
MissingS == <<"Missing">>

UpperLetters == <<"A","B","C","D","E","F","G","H","I","J","K","L","M",
                  "N","O","P","Q","R","S","T","U","V","W","X","Y","Z">>
LowerLetters == <<"a","b","c","d","e","f","g","h","i","j","k","l","m",
                  "n","o","p","q","r","s","t","u","v","w","x","y","z">>
Digits == {"0","1","2","3","4","5","6","7","8","9"}

Range(s) == {s[i] : i \in 1..Len(s)}

\* str.isalnum() and str.isspace() of one character
IsAlnum(c) == c \in Range(UpperLetters) \cup Range(LowerLetters) \cup Digits
IsSpace(c) == c = " "

\* str.lower()
LowerCh(c) ==
    IF c \in Range(UpperLetters)
    THEN LowerLetters[CHOOSE i \in 1..26 : UpperLetters[i] = c]
    ELSE c
Lower(s) == [i \in 1..Len(s) |-> LowerCh(s[i])]

\* needle in hay
IsSubstr(needle, hay) ==
    \E i \in 0..(Len(hay) - Len(needle)) :
        \A j \in 1..Len(needle) : hay[i + j] = needle[j]

\* hay.startswith(prefix)
StartsWith(hay, prefix) ==
    /\ Len(prefix) <= Len(hay)
    /\ \A j \in 1..Len(prefix) : hay[j] = prefix[j]

\* name or ""
OrEmpty(name) == IF name = NoneS \/ name = <<>> THEN <<>> ELSE name

\* dict.get(key, default) of a string field
GetS(field, default) == IF field = MissingS THEN default ELSE field

RECURSIVE KeepAlnumSpace(_)
KeepAlnumSpace(s) ==
    IF s = <<>> THEN <<>>
    ELSE IF IsAlnum(Head(s)) \/ IsSpace(Head(s))
         THEN <<Head(s)>> \o KeepAlnumSpace(Tail(s))
         ELSE KeepAlnumSpace(Tail(s))

\* str.split(): the maximal runs of non-space characters
RECURSIVE SplitWs(_, _)
SplitWs(s, word) ==
    IF s = <<>> THEN (IF word = <<>> THEN <<>> ELSE <<word>>)
    ELSE IF IsSpace(Head(s))
         THEN (IF word = <<>> THEN <<>> ELSE <<word>>) \o SplitWs(Tail(s), <<>>)
         ELSE SplitWs(Tail(s), Append(word, Head(s)))

\* " ".join(words)
RECURSIVE JoinSp(_)
JoinSp(words) ==
    IF words = <<>> THEN <<>>
    ELSE IF Len(words) = 1 THEN words[1]
    ELSE words[1] \o <<" ">> \o JoinSp(Tail(words))

_normalize_team_name(name) ==
    JoinSp(SplitWs(KeepAlnumSpace(Lower(OrEmpty(name))), <<>>))

-----------------------------------------------------------------------------
(* ISO-8601 instants.  An instant given by a feed is                       *)
(*   kind "none"      the field is absent or null                          *)
(*   kind "empty"     the empty string                                     *)
(*   kind "malformed" a string datetime.fromisoformat rejects              *)
(*   kind "nonstr"    a truthy value that is not a string                  *)
(*   kind "iso"       YYYY-MM-DDTHH:MM:SS + zone, on the given day         *)

Days == {1, 2, 3}
Zones == {"Z", "+00:00", "-05:00"}

IsoNone == [kind |-> "none", day |-> 0, zone |-> ""]
IsoInputs ==
    {[kind |-> k, day |-> 0, zone |-> ""] :
        k \in {"none", "empty", "malformed", "nonstr"}}
    \cup {[kind |-> "iso", day |-> d, zone |-> z] : d \in Days, z \in Zones}

NoDt == [isNone |-> TRUE, day |-> 0, zone |-> ""]

\* datetime.fromisoformat(iso.replace("Z", "+00:00")) if iso else None
parse_iso(iso) ==
    CASE iso.kind \in {"none", "empty"} -> Ok(NoDt)
      [] iso.kind = "nonstr" -> Exc("AttributeError")
      [] iso.kind = "malformed" -> Exc("ValueError")
      [] OTHER -> Ok([isNone |-> FALSE, day |-> iso.day,
                      zone |-> IF iso.zone = "Z" THEN "+00:00" ELSE iso.zone])

\* date.isoformat(): the days of the model are 2024-03-01 .. 2024-03-09
date_isoformat(day) ==
    <<"2","0","2","4","-","0","3","-","0",
      CASE day = 1 -> "1" [] day = 2 -> "2" [] day = 3 -> "3"
        [] day = 4 -> "4" [] OTHER -> "9">>

make_matchup_key_swapped(away, home, iso_datetime) ==
    LET r == parse_iso(iso_datetime)
        date_key == IF r.exc # "none" THEN <<>>
                    ELSE IF r.val.isNone THEN <<>>
                    ELSE date_isoformat(r.val.day)
    IN  _normalize_team_name(home) \o <<"|">> \o _normalize_team_name(away)
            \o <<"|">> \o date_key

_make_matchup_key(away, home, iso_datetime) ==
    LET r == parse_iso(iso_datetime)
        date_key == IF r.exc # "none" THEN <<>>          \* except Exception
                    ELSE IF r.val.isNone THEN <<>>
                    ELSE date_isoformat(r.val.day)
    IN  _normalize_team_name(away) \o <<"|">> \o _normalize_team_name(home)
            \o <<"|">> \o date_key

-----------------------------------------------------------------------------
(* Formatting *)

Abs(n) == IF n < 0 THEN -n ELSE n

DigitCh(d) ==
    CASE d = 0 -> "0" [] d = 1 -> "1" [] d = 2 -> "2" [] d = 3 -> "3"
      [] d = 4 -> "4" [] d = 5 -> "5" [] d = 6 -> "6" [] d = 7 -> "7"
      [] d = 8 -> "8" [] OTHER -> "9"

RECURSIVE NatStr(_)
NatStr(n) == IF n < 10 THEN <<DigitCh(n)>> ELSE NatStr(n \div 10) \o <<DigitCh(n % 10)>>

\* f"{n}" and f"{n:+}" of an integer
IntStr(n) == IF n < 0 THEN <<"-">> \o NatStr(-n) ELSE NatStr(n)
FmtSigned(n) == <<IF n < 0 THEN "-" ELSE "+">> \o NatStr(Abs(n))

\* f"{x}" of an optional integer: None prints as None
OptStr(x) == IF x = <<>> THEN <<"N","o","n","e">> ELSE IntStr(x[1])

-----------------------------------------------------------------------------
(* summarize_odds_for_event *)

Lakers == <<"L","o","s"," ","A","n","g","e","l","e","s"," ","L","a","k","e","r","s">>
Nuggets == <<"D","e","n","v","e","r"," ","N","u","g","g","e","t","s">>
OverName == <<"O","v","e","r">>
OVERName == <<"O","V","E","R">>
UnderName == <<"U","n","d","e","r">>
over == <<"o","v","e","r">>
under == <<"u","n","d","e","r">>

MarketKeys == {"h2h", "spreads", "totals", "outrights"}
Prices == {-110, 150}
Points == {3}
Opt(S) == {<<>>} \cup {<<x>> : x \in S}

NoBest == [best_home_ml |-> <<>>, best_away_ml |-> <<>>,
           best_spread |-> <<>>, best_total |-> <<>>]

\* str(o.get("name", ""))
StrName(name) == IF name = MissingS THEN <<>> ELSE name

h2h_step(best, home, away, o) ==
    LET name == o.name
        price == o.price
    IN  IF price = <<>> THEN best
        ELSE IF name = home THEN [best EXCEPT !.best_home_ml = price]
        ELSE IF name = away THEN [best EXCEPT !.best_away_ml = price]
        ELSE best

spreads_step(best, home, o) ==
    IF o.name = home /\ o.price # <<>>
    THEN [best EXCEPT !.best_spread = <<[point |-> o.point, price |-> o.price[1]]>>]
    ELSE best

totals_step_any_name(best, o) ==
    IF o.price # <<>>
    THEN [best EXCEPT !.best_total = <<[point |-> o.point, price |-> o.price[1]]>>]
    ELSE best

totals_step(best, o) ==
    IF StartsWith(Lower(StrName(o.name)), over) /\ o.price # <<>>
    THEN [best EXCEPT !.best_total = <<[point |-> o.point, price |-> o.price[1]]>>]
    ELSE best

\* the body of the loops over bookmakers, markets and outcomes, for one outcome
\* o of a market with the given key
reduce_step(best, home, away, key, o) ==
    CASE key = "h2h" -> h2h_step(best, home, away, o)
      [] key = "spreads" -> spreads_step(best, home, o)
      [] key = "totals" -> totals_step(best, o)
      [] OTHER -> best

fmt_moneyline(best) ==
    FmtSigned(best.best_away_ml[1]) \o <<" ", "/", " ">> \o FmtSigned(best.best_home_ml[1])

\* f"{point:+g} ({price:+})": a None point raises TypeError
fmt_spread(sp) == FmtSigned(sp.point[1]) \o <<" ", "(">> \o FmtSigned(sp.price) \o <<")">>

fmt_total(tt) ==
    <<"O", "/", "U", " ">> \o OptStr(tt.point) \o <<" ", "(">> \o FmtSigned(tt.price) \o <<")">>

SummaryOf(best, withMl) ==
    LET keys == (IF withMl THEN {"moneyline"} ELSE {})
                \cup (IF best.best_spread # <<>> THEN {"spread"} ELSE {})
                \cup (IF best.best_total # <<>> THEN {"total"} ELSE {})
    IN  IF best.best_spread # <<>> /\ best.best_spread[1].point = <<>>
        THEN Exc("TypeError")
        ELSE Ok([k \in keys |->
                  CASE k = "moneyline" -> fmt_moneyline(best)
                    [] k = "spread" -> fmt_spread(best.best_spread[1])
                    [] OTHER -> fmt_total(best.best_total[1])])

fmt_one_sided(best) ==
    IF best.best_away_ml # <<>> THEN FmtSigned(best.best_away_ml[1])
    ELSE FmtSigned(best.best_home_ml[1])

build_summary_either_side(best) ==
    LET both == best.best_home_ml # <<>> /\ best.best_away_ml # <<>>
        any == best.best_home_ml # <<>> \/ best.best_away_ml # <<>>
        keys == (IF any THEN {"moneyline"} ELSE {})
                \cup (IF best.best_spread # <<>> THEN {"spread"} ELSE {})
                \cup (IF best.best_total # <<>> THEN {"total"} ELSE {})
    IN  IF best.best_spread # <<>> /\ best.best_spread[1].point = <<>>
        THEN Exc("TypeError")
        ELSE Ok([k \in keys |->
                  CASE k = "moneyline" ->
                         (IF both THEN fmt_moneyline(best) ELSE fmt_one_sided(best))
                    [] k = "spread" -> fmt_spread(best.best_spread[1])
                    [] OTHER -> fmt_total(best.best_total[1])])

\* the summary dict built after the loops
build_summary(best) ==
    SummaryOf(best, best.best_home_ml # <<>> /\ best.best_away_ml # <<>>)

-----------------------------------------------------------------------------
(* Configuration *)

Penguins == <<"P","i","t","t","s","b","u","r","g","h"," ","P","e","n","g","u","i","n","s">>
Steelers == <<"P","i","t","t","s","b","u","r","g","h"," ","S","t","e","e","l","e","r","s">>
Knicks == <<"N","e","w"," ","Y","o","r","k"," ","K","n","i","c","k","s">>
Mercedes == <<"M","e","r","c","e","d","e","s">>
LabelPenguins == <<"U+1F427"," ","P","e","n","g","u","i","n","s">>
LabelSteelers == <<"U+1F3C8"," ","S","t","e","e","l","e","r","s">>
LabelLakers == <<"U+1F3C0"," ","L","a","k","e","r","s">>
LabelKnicks == <<"U+1F3C0"," ","K","n","i","c","k","s">>
LabelMercedes == <<"U+1F3CE","U+FE0F"," ","M","e","r","c","e","d","e","s"," ","F","1">>
LabelSlams == <<"U+1F3BE"," ","G","r","a","n","d"," ","S","l","a","m","s">>
mens_tennis_slams == <<"m","e","n","s","_","t","e","n","n","i","s","_","s","l","a","m","s">>

\* None as an odds_sport_key
NoneKey == "None"

\* TRACKING_CONFIG, in its order; of each entry the fields the reconciliation
\* reads (sport, league and accent only build URLs and styles)
TRACKING_CONFIG ==
    <<[key |-> "pittsburgh_penguins", label |-> LabelPenguins,
       team_name |-> Penguins, odds_sport_key |-> "icehockey_nhl"],
      [key |-> "pittsburgh_steelers", label |-> LabelSteelers,
       team_name |-> Steelers, odds_sport_key |-> "americanfootball_nfl"],
      [key |-> "la_lakers", label |-> LabelLakers,
       team_name |-> Lakers, odds_sport_key |-> "basketball_nba"],
      [key |-> "ny_knicks", label |-> LabelKnicks,
       team_name |-> Knicks, odds_sport_key |-> "basketball_nba"],
      [key |-> "f1_mercedes", label |-> LabelMercedes,
       team_name |-> Mercedes, odds_sport_key |-> "formula1"],
      [key |-> "mens_tennis_slams", label |-> LabelSlams,
       team_name |-> NoneS, odds_sport_key |-> NoneKey]>>

GRAND_SLAM_KEYS ==
    <<<<"a","u","s","t","r","a","l","i","a","n"," ","o","p","e","n">>,
      <<"f","r","e","n","c","h"," ","o","p","e","n">>,
      <<"r","o","l","a","n","d"," ","g","a","r","r","o","s">>,
      <<"w","i","m","b","l","e","d","o","n">>,
      <<"u","s"," ","o","p","e","n">>>>

-----------------------------------------------------------------------------
(* Schedule events.  An event of the schedule feed is a record              *)
(*   hasComps      the key "competitions" is present                        *)
(*   competitions  its list of [competitors, status]                        *)
(*   date, name, shortName, status                                          *)
(* and a competitor is [homeAway, displayName, score]; a string field that  *)
(* is absent is MissingS.                                                   *)

TBD == <<"T","B","D">>
AwayDefault == <<"A","w","a","y">>
HomeDefault == <<"H","o","m","e">>

\* the {} of event.get("competitions", [{}])
EmptyCompetition == [competitors |-> <<>>, status |-> MissingS]

\* event.get("competitions", [{}])[0]
first_competition(event) ==
    IF ~event.hasComps THEN Ok(EmptyCompetition)
    ELSE IF event.competitions = <<>> THEN Exc("IndexError")
    ELSE Ok(event.competitions[1])

\* next((c for c in competitors if c.get("homeAway") == role), competitors[fallback])
pick_role(competitors, role, fallback) ==
    IF \E i \in 1..Len(competitors) : competitors[i].homeAway = role
    THEN competitors[CHOOSE i \in 1..Len(competitors) :
                        /\ competitors[i].homeAway = role
                        /\ \A j \in 1..(i - 1) : competitors[j].homeAway # role]
    ELSE competitors[fallback]

build_matchup_key_by_position(event) ==
    LET c == first_competition(event)
        competitors == c.val.competitors
        away == IF competitors # <<>> THEN GetS(competitors[1].displayName, <<>>) ELSE <<>>
        home == IF Len(competitors) >= 2 THEN GetS(competitors[2].displayName, <<>>)
                ELSE <<>>
    IN  IF c.exc # "none" THEN c
        ELSE Ok(_make_matchup_key(away, home, event.date))

build_matchup_key_from_espn_event(event) ==
    LET c == first_competition(event)
        competitors == c.val.competitors
        two == Len(competitors) >= 2
        away == IF two THEN GetS(pick_role(competitors, "away", 1).displayName, <<>>)
                ELSE IF competitors # <<>> THEN GetS(competitors[1].displayName, <<>>)
                ELSE <<>>
        home == IF two THEN GetS(pick_role(competitors, "home", 2).displayName, <<>>)
                ELSE <<>>
    IN  IF c.exc # "none" THEN c
        ELSE Ok(_make_matchup_key(away, home, event.date))

\* dt_utc.astimezone().strftime("%Y-%m-%d %I:%M %p"): the model shows the
\* date of the instant and the offset it was given in
local_strftime(dt) == date_isoformat(dt.day) \o <<" ", dt.zone>>

format_event_row(event) ==
    LET c == first_competition(event)
        competitors == c.val.competitors
        few == Len(competitors) < 2
        away_obj == pick_role(competitors, "away", 1)
        home_obj == pick_role(competitors, "home", 2)
        away == IF few
                THEN (IF competitors # <<>> THEN GetS(competitors[1].displayName, TBD)
                      ELSE TBD)
                ELSE GetS(away_obj.displayName, AwayDefault)
        home == IF few THEN TBD ELSE GetS(home_obj.displayName, HomeDefault)
        away_score == GetS(away_obj.score, <<>>)
        home_score == GetS(home_obj.score, <<>>)
        score == IF few THEN <<"-">>
                 ELSE IF away_score # <<>> \/ home_score # <<>>
                 THEN away_score \o <<"-">> \o home_score
                 ELSE <<"-">>
        dt_utc == parse_iso(event.date)
        local_time == IF dt_utc.val.isNone THEN <<"-">> ELSE local_strftime(dt_utc.val)
        status == IF OrEmpty(GetS(c.val.status, NoneS)) # <<>> THEN c.val.status
                  ELSE GetS(event.status, <<>>)
    IN  IF c.exc # "none" THEN c
        ELSE IF dt_utc.exc # "none" THEN dt_utc
        ELSE Ok([k \in {"Date/Time", "Matchup", "Score", "Status"} |->
                  CASE k = "Date/Time" -> local_time
                    [] k = "Matchup" -> away \o <<" ", "@", " ">> \o home
                    [] k = "Score" -> score
                    [] OTHER -> status])

\* the condition of the loop body of filter_team_events, for one event
team_event_matches(e, target) ==
    LET c == first_competition(e)
        competitors == c.val.competitors
        names == [i \in 1..Len(competitors) |->
                    Lower(GetS(competitors[i].displayName, <<>>))]
    IN  IF c.exc # "none" THEN c
        ELSE Ok(\E i \in 1..Len(names) :
                    IsSubstr(target, names[i]) \/ IsSubstr(names[i], target))

RECURSIVE filter_team_loop(_, _, _)
filter_team_loop(filtered, events, target) ==
    IF events = <<>> THEN Ok(filtered)
    ELSE LET m == team_event_matches(Head(events), target)
         IN  IF m.exc # "none" THEN m
             ELSE filter_team_loop(IF m.val THEN Append(filtered, Head(events))
                                   ELSE filtered,
                                   Tail(events), target)

filter_team_events(events, team_name) ==
    IF OrEmpty(team_name) = <<>> THEN Ok(events)
    ELSE filter_team_loop(<<>>, events, Lower(team_name))

\* any(k in name or k in short_name for k in GRAND_SLAM_KEYS)
is_grand_slam(e) ==
    LET name == Lower(OrEmpty(GetS(e.name, NoneS)))
        short_name == Lower(OrEmpty(GetS(e.shortName, NoneS)))
    IN  \E i \in 1..Len(GRAND_SLAM_KEYS) :
            IsSubstr(GRAND_SLAM_KEYS[i], name) \/ IsSubstr(GRAND_SLAM_KEYS[i], short_name)

filter_grand_slams(events) == SelectSeq(events, is_grand_slam)

-----------------------------------------------------------------------------
(* Odds events.  An event of the odds feed is a record                      *)
(*   home_team, away_team, commence_time                                    *)
(*   bookmakers  a list of [markets], a market being [key, outcomes]        *)

RECURSIVE fold_outcomes(_, _, _, _, _)
fold_outcomes(best, home, away, key, outcomes) ==
    IF outcomes = <<>> THEN best
    ELSE fold_outcomes(reduce_step(best, home, away, key, Head(outcomes)),
                       home, away, key, Tail(outcomes))

RECURSIVE fold_markets(_, _, _, _)
fold_markets(best, home, away, markets) ==
    IF markets = <<>> THEN best
    ELSE fold_markets(fold_outcomes(best, home, away, Head(markets).key,
                                    Head(markets).outcomes),
                      home, away, Tail(markets))

RECURSIVE fold_books(_, _, _, _)
fold_books(best, home, away, books) ==
    IF books = <<>> THEN best
    ELSE fold_books(fold_markets(best, home, away, Head(books).markets),
                    home, away, Tail(books))

summarize_odds_for_event(odds_event) ==
    build_summary(fold_books(NoBest, GetS(odds_event.home_team, <<>>),
                             GetS(odds_event.away_team, <<>>), odds_event.bookmakers))

\* a dict with no entry, and out[key] = value
EmptyMap == [k \in {} |-> <<>>]
put_if_absent(out, key, value) ==
    [k \in DOMAIN out \cup {key} |-> IF k \in DOMAIN out THEN out[k] ELSE value]
Put(out, key, value) == [k \in DOMAIN out \cup {key} |-> IF k = key THEN value ELSE out[k]]

RECURSIVE odds_map_loop(_, _)
odds_map_loop(out, data) ==
    IF data = <<>> THEN Ok(out)
    ELSE LET event == Head(data)
             key == _make_matchup_key(GetS(event.away_team, <<>>),
                                      GetS(event.home_team, <<>>), event.commence_time)
             summary == summarize_odds_for_event(event)
         IN  IF summary.exc # "none" THEN summary
             ELSE odds_map_loop(IF DOMAIN summary.val # {}
                                THEN Put(out, key, summary.val) ELSE out,
                                Tail(data))

\* data is what fetch_json returned: a list of odds events, or not a list
get_event_odds_map(data) ==
    IF ~data.isList THEN Ok(EmptyMap) ELSE odds_map_loop(EmptyMap, data.events)

\* summary.get(field, "-")
SummaryGet(summary, field) ==
    IF field \in DOMAIN summary THEN summary[field] ELSE <<"-">>

join_row_dash_on_miss(e, odds_map) ==
    LET row == format_event_row(e)
        matchup_key == build_matchup_key_from_espn_event(e)
        hit == /\ matchup_key.val \in DOMAIN odds_map
               /\ DOMAIN odds_map[matchup_key.val] # {}
        summary == IF hit THEN odds_map[matchup_key.val] ELSE EmptyMap
    IN  IF row.exc # "none" THEN row
        ELSE IF DOMAIN odds_map # {} /\ matchup_key.exc # "none" THEN matchup_key
        ELSE IF DOMAIN odds_map # {}
        THEN Ok([k \in DOMAIN row.val \cup {"Moneyline", "Spread", "Total"} |->
                  CASE k = "Moneyline" -> SummaryGet(summary, "moneyline")
                    [] k = "Spread" -> SummaryGet(summary, "spread")
                    [] k = "Total" -> SummaryGet(summary, "total")
                    [] OTHER -> row.val[k]])
        ELSE row

\* the body of the loop over the schedule events of render_scores_and_schedule
join_row(e, odds_map) ==
    LET row == format_event_row(e)
        matchup_key == build_matchup_key_from_espn_event(e)
        hit == /\ DOMAIN odds_map # {}
               /\ matchup_key.val \in DOMAIN odds_map
               /\ DOMAIN odds_map[matchup_key.val] # {}
        summary == odds_map[matchup_key.val]
    IN  IF row.exc # "none" THEN row
        ELSE IF DOMAIN odds_map # {} /\ matchup_key.exc # "none" THEN matchup_key
        ELSE IF hit
        THEN Ok([k \in DOMAIN row.val \cup {"Moneyline", "Spread", "Total"} |->
                  CASE k = "Moneyline" -> SummaryGet(summary, "moneyline")
                    [] k = "Spread" -> SummaryGet(summary, "spread")
                    [] k = "Total" -> SummaryGet(summary, "total")
                    [] OTHER -> row.val[k]])
        ELSE row

-----------------------------------------------------------------------------
(* Arbitrary strings: a lower-case letter, an upper-case letter, a space and *)
(* a punctuation mark                                                        *)

Alphabet == {"a", "B", " ", "|"}
StringsUpTo(n) == UNION {[1..k -> Alphabet] : k \in 0..n}

-----------------------------------------------------------------------------
(* The parts of the state a specification does not use stay idle *)

KeyIdle ==
    /\ k_pc = "idle" /\ k_away = <<>> /\ k_home = <<>>
    /\ k_iso = IsoNone /\ k_result = <<>>

ReduceIdle ==
    /\ r_pc = "idle" /\ r_home = <<>> /\ r_away = <<>>
    /\ r_book = 0 /\ r_key = "" /\ r_n = 0
    /\ r_best = NoBest /\ r_result = Ok(<<>>)
    /\ h_firstHome = <<>> /\ h_firstAway = <<>>
    /\ h_lastOver = <<>> /\ h_under = FALSE
    /\ shadow_total = <<>>

FilterIdle == f_pc = "idle" /\ f_team = <<>> /\ f_events = <<>> /\ f_result = Ok(<<>>)

JoinIdle ==
    /\ j_pc = "idle" /\ j_cfg = TRACKING_CONFIG[1] /\ j_api_key = FALSE
    /\ j_feed = <<>> /\ j_events = <<>> /\ j_slams = FALSE
    /\ j_data = [isList |-> FALSE, events |-> <<>>] /\ j_odds_map = EmptyMap
    /\ j_built = FALSE /\ j_rows = <<>> /\ j_i = 1 /\ j_exc = ""

LiveIdle ==
    /\ l_pc = "idle" /\ l_cfg = TRACKING_CONFIG[1] /\ l_api_key = FALSE
    /\ l_isList = FALSE /\ l_best = [best_playoff |-> <<>>, best_title |-> <<>>]
    /\ l_n = 0 /\ l_odds = EmptyMap /\ l_shown = ""

IndexIdle == i_pc = "idle" /\ i_seen = <<>> /\ i_out = EmptyMap /\ i_exc = ""

-----------------------------------------------------------------------------
(* SpecReduce: summarize_odds_for_event reads an arbitrary odds event, one  *)
(* bookmaker, market or outcome of the traversal at a time.                 *)

TeamNames == {Lakers, Nuggets}
OutcomeNames == {Lakers, Nuggets, OverName, OVERName, UnderName, MissingS}
Outcomes == [name : OutcomeNames, price : Opt(Prices), point : Opt(Points)]

IsOver(o) == StartsWith(Lower(StrName(o.name)), over)
IsUnder(o) == StartsWith(Lower(StrName(o.name)), under)

InitReduce ==
    /\ KeyIdle /\ FilterIdle /\ JoinIdle /\ LiveIdle /\ IndexIdle
    /\ r_pc = "scan"
    /\ r_home \in TeamNames
    /\ r_away \in TeamNames
    /\ r_book = 0 /\ r_key = "" /\ r_n = 0
    /\ r_best = NoBest /\ r_result = Ok(<<>>)
    /\ h_firstHome = <<>> /\ h_firstAway = <<>>
    /\ h_lastOver = <<>> /\ h_under = FALSE
    /\ shadow_total = <<>>

\* for book in odds_event.get("bookmakers", [])
NextBook ==
    /\ r_pc = "scan"
    /\ r_book < MaxBooks
    /\ r_book' = r_book + 1
    /\ r_key' = ""
    /\ UNCHANGED <<r_pc, r_home, r_away, r_n, r_best, r_result, h_firstHome,
                   h_firstAway, h_lastOver, h_under, shadow_total>>
    /\ UNCHANGED <<keyVars, filterVars, joinVars, liveVars, indexVars>>

\* for market in book.get("markets", [])
NextMarket ==
    /\ r_pc = "scan"
    /\ r_book > 0
    /\ \E key \in MarketKeys : r_key' = key
    /\ UNCHANGED <<r_pc, r_home, r_away, r_book, r_n, r_best, r_result, h_firstHome,
                   h_firstAway, h_lastOver, h_under, shadow_total>>
    /\ UNCHANGED <<keyVars, filterVars, joinVars, liveVars, indexVars>>

\* for o in outcomes
NextOutcome ==
    /\ r_pc = "scan"
    /\ r_key # ""
    /\ r_n < MaxQuotes
    /\ \E o \in Outcomes :
        LET priced == o.price # <<>>
            h2h == r_key = "h2h" /\ priced
            pair == <<[point |-> o.point, price |-> o.price[1]]>>
        IN  /\ r_best' = reduce_step(r_best, r_home, r_away, r_key, o)
            /\ h_firstHome' = IF h2h /\ o.name = r_home /\ h_firstHome = <<>>
                              THEN o.price ELSE h_firstHome
            /\ h_firstAway' = IF h2h /\ o.name = r_away /\ h_firstAway = <<>>
                              THEN o.price ELSE h_firstAway
            /\ h_lastOver' = IF r_key = "totals" /\ priced /\ IsOver(o)
                             THEN pair ELSE h_lastOver
            /\ h_under' = (h_under \/ (r_key = "totals" /\ priced /\ IsUnder(o)
                                      /\ h_lastOver = <<>>))
            /\ shadow_total' = IF r_key = "totals" /\ ~IsUnder(o)
                               THEN totals_step([r_best EXCEPT !.best_total = shadow_total],
                                                o).best_total
                               ELSE shadow_total
    /\ r_n' = r_n + 1
    /\ UNCHANGED <<r_pc, r_home, r_away, r_book, r_key, r_result>>
    /\ UNCHANGED <<keyVars, filterVars, joinVars, liveVars, indexVars>>

\* the loops are over: build and return the summary
Summarize ==
    /\ r_pc = "scan"
    /\ r_result' = build_summary(r_best)
    /\ r_pc' = "done"
    /\ UNCHANGED <<r_home, r_away, r_book, r_key, r_n, r_best, h_firstHome,
                   h_firstAway, h_lastOver, h_under, shadow_total>>
    /\ UNCHANGED <<keyVars, filterVars, joinVars, liveVars, indexVars>>

NextReduce == NextBook \/ NextMarket \/ NextOutcome \/ Summarize
SpecReduce == InitReduce /\ [][NextReduce]_vars

Returned == r_pc = "done" /\ r_result.exc = "none"
HomeResolved == h_firstHome # <<>>
AwayResolved == h_firstAway # <<>>

\* C1: the moneyline reports, for each side, the first non-null h2h price of
\* that side in traversal order; later quotes for the side change nothing.
MoneylineFirstSeen ==
    (Returned /\ HomeResolved /\ AwayResolved /\ r_home # r_away) =>
        /\ "moneyline" \in DOMAIN r_result.val
        /\ r_result.val["moneyline"] =
              FmtSigned(h_firstAway[1]) \o <<" ", "/", " ">> \o FmtSigned(h_firstHome[1])

\* C5 as stated: when exactly one side has a non-null h2h price, the summary
\* has a moneyline field holding only the side that resolved.
OneSidedMoneyline ==
    (Returned /\ HomeResolved # AwayResolved) =>
        /\ "moneyline" \in DOMAIN r_result.val
        /\ r_result.val["moneyline"] = fmt_one_sided(r_best)

\* C5 as amended: when exactly one side has a non-null h2h price, the summary
\* has no moneyline field (its other fields are unaffected).
OneSidedNoMoneyline ==
    (Returned /\ HomeResolved # AwayResolved) =>
        "moneyline" \notin DOMAIN r_result.val

OneSidedWitness ==
    /\ Returned /\ HomeResolved /\ ~AwayResolved
    /\ r_home # r_away
    /\ "total" \in DOMAIN r_result.val

\* C6: the total field is decided by the priced totals outcomes whose name
\* begins with "over" alone: the traversal without its Under outcomes computes
\* the same total, the field is the last priced Over, and without a priced
\* Over the field is absent.
TotalIgnoresUnder ==
    /\ r_best.best_total = shadow_total
    /\ Returned =>
          /\ ("total" \in DOMAIN r_result.val) <=> (h_lastOver # <<>>)
          /\ h_lastOver # <<>> => r_result.val["total"] = fmt_total(h_lastOver[1])

TotalIgnoresUnderWitness ==
    /\ Returned /\ h_under /\ h_lastOver # <<>>
    /\ "total" \in DOMAIN r_result.val

-----------------------------------------------------------------------------
(* SpecKey: one call of _make_matchup_key on arbitrary arguments *)

KeyNames == StringsUpTo(MaxLen) \cup {NoneS}

InitKey ==
    /\ ReduceIdle /\ FilterIdle /\ JoinIdle /\ LiveIdle /\ IndexIdle
    /\ k_pc = "call"
    /\ k_away \in KeyNames
    /\ k_home \in KeyNames
    /\ k_iso \in IsoInputs
    /\ k_result = <<>>

MakeKey ==
    /\ k_pc = "call"
    /\ k_result' = _make_matchup_key(k_away, k_home, k_iso)
    /\ k_pc' = "done"
    /\ UNCHANGED <<k_away, k_home, k_iso>>
    /\ UNCHANGED <<reduceVars, filterVars, joinVars, liveVars, indexVars>>

NextKey == MakeKey
SpecKey == InitKey /\ [][NextKey]_vars

\* the date part the key must end in
DatePart(iso) == IF iso.kind = "iso" THEN date_isoformat(iso.day) ELSE <<>>

\* C4: _make_matchup_key returns normalize(away) + "|" + normalize(home) +
\* "|" + date_part, with date_part the YYYY-MM-DD date of a parsable instant
\* and "" for a missing, malformed or unparsable one; swapping away and home
\* gives a different key whenever their normalised names differ.
KeyShape ==
    k_pc = "done" =>
        /\ k_result = _normalize_team_name(k_away) \o <<"|">>
                        \o _normalize_team_name(k_home) \o <<"|">> \o DatePart(k_iso)
        /\ (_normalize_team_name(k_away) # _normalize_team_name(k_home)
              => _make_matchup_key(k_home, k_away, k_iso) # k_result)

KeyShapeWitness ==
    /\ k_pc = "done"
    /\ k_iso.kind = "malformed"
    /\ _normalize_team_name(k_away) # _normalize_team_name(k_home)
    /\ k_away # _normalize_team_name(k_away)

-----------------------------------------------------------------------------
(* SpecFilter: one call of filter_team_events on arbitrary events *)

Competitor(role, name) == [homeAway |-> role, displayName |-> name, score |-> MissingS]

\* a schedule event with the given competitors and nothing else
EventOf(competitors) ==
    [hasComps |-> TRUE,
     competitions |-> <<[competitors |-> competitors, status |-> MissingS]>>,
     date |-> IsoNone, name |-> MissingS, shortName |-> MissingS, status |-> MissingS]

\* a schedule event without the key "competitions", and one whose list is empty
EventNoComps ==
    [hasComps |-> FALSE, competitions |-> <<>>,
     date |-> IsoNone, name |-> MissingS, shortName |-> MissingS, status |-> MissingS]
EventEmptyComps == [EventNoComps EXCEPT !.hasComps = TRUE]

FilterEvents ==
    {EventOf(<<>>), EventNoComps, EventEmptyComps}
    \cup {EventOf(<<Competitor("home", n)>>) : n \in StringsUpTo(MaxLen) \cup {MissingS}}
    \cup {EventOf(<<Competitor("home", n1), Competitor("away", n2)>>) :
            n1 \in StringsUpTo(1), n2 \in StringsUpTo(1)}

SeqsUpTo(S, n) == UNION {[1..k -> S] : k \in 0..n}

InitFilter ==
    /\ KeyIdle /\ ReduceIdle /\ JoinIdle /\ LiveIdle /\ IndexIdle
    /\ f_pc = "call"
    /\ f_team \in StringsUpTo(MaxLen) \cup {NoneS}
    /\ f_events \in SeqsUpTo(FilterEvents, MaxFilterEvents)
    /\ f_result = Ok(<<>>)

FilterTeam ==
    /\ f_pc = "call"
    /\ f_result' = filter_team_events(f_events, f_team)
    /\ f_pc' = "done"
    /\ UNCHANGED <<f_team, f_events>>
    /\ UNCHANGED <<keyVars, reduceVars, joinVars, liveVars, indexVars>>

NextFilter == FilterTeam
SpecFilter == InitFilter /\ [][NextFilter]_vars

\* the events C7 says are kept for a team name that is not null
team_event_matches_normalized(e, team) ==
    LET competitors == first_competition(e).val.competitors
        t == _normalize_team_name(team)
    IN  \E i \in 1..Len(competitors) :
            LET n == _normalize_team_name(GetS(competitors[i].displayName, <<>>))
            IN  IsSubstr(t, n) \/ IsSubstr(n, t)

FilterTeamExpected(events, team) ==
    IF OrEmpty(team) = <<>> THEN events
    ELSE SelectSeq(events, LAMBDA e : team_event_matches_normalized(e, team))

\* C7: filter_team_events returns, in input order, all events for a null team
\* name, and otherwise exactly the events with a participant whose normalised
\* name contains, or is contained in, the normalised team name.
FilterTeamNormalized ==
    (f_pc = "done" /\ f_result.exc = "none" /\ _normalize_team_name(f_team) # <<>>) =>
        f_result.val = FilterTeamExpected(f_events, f_team)

-----------------------------------------------------------------------------
(* SpecJoin: render_scores_and_schedule for one tracked subject *)

Rangers == <<"N","e","w"," ","Y","o","r","k"," ","R","a","n","g","e","r","s">>
Wimbledon == <<"W","i","m","b","l","e","d","o","n">>
MiamiOpen == <<"M","i","a","m","i"," ","O","p","e","n">>

IsoOn(day, zone) == [kind |-> "iso", day |-> day, zone |-> zone]
IsoMalformed == [kind |-> "malformed", day |-> 0, zone |-> ""]

\* away at home on the given date, the home side listed first
Game(away, home, date) ==
    [EventOf(<<Competitor("home", home), Competitor("away", away)>>)
        EXCEPT !.date = date]
Tournament(name, date) == [EventNoComps EXCEPT !.name = name, !.date = date]

SchedPool ==
    {Game(Penguins, Rangers, IsoOn(1, "Z")),
     Game(Penguins, Rangers, IsoOn(2, "Z")),
     Game(Nuggets, Lakers, IsoOn(1, "-05:00")),
     Game(Penguins, Rangers, IsoMalformed),
     Tournament(Wimbledon, IsoOn(1, "Z")),
     Tournament(MiamiOpen, IsoOn(2, "Z")),
     [EventEmptyComps EXCEPT !.name = Wimbledon]}

Quote(name, price, point) == [name |-> name, price |-> price, point |-> point]
Book(key, outcomes) == [markets |-> <<[key |-> key, outcomes |-> outcomes]>>]
Odds(away, home, time, books) ==
    [home_team |-> home, away_team |-> away, commence_time |-> time, bookmakers |-> books]

OddsPool ==
    {Odds(Penguins, Rangers, IsoOn(1, "Z"),
          <<Book("h2h", <<Quote(Rangers, <<-110>>, <<>>), Quote(Penguins, <<150>>, <<>>)>>)>>),
     Odds(Penguins, Rangers, IsoOn(2, "+00:00"),
          <<Book("totals", <<Quote(UnderName, <<150>>, <<3>>), Quote(OverName, <<-110>>, <<3>>)>>)>>),
     Odds(Penguins, Rangers, IsoOn(1, "Z"), <<>>),
     Odds(Penguins, Rangers, IsoOn(1, "Z"),
          <<Book("spreads", <<Quote(Rangers, <<-110>>, <<>>)>>)>>),
     Odds(Nuggets, Lakers, IsoOn(1, "-05:00"),
          <<Book("h2h", <<Quote(Lakers, <<150>>, <<>>), Quote(Nuggets, <<-110>>, <<>>)>>),
            Book("spreads", <<Quote(Lakers, <<-110>>, <<3>>)>>)>>)}

NotAList == [isList |-> FALSE, events |-> <<>>]
OddsPayloads == {NotAList} \cup {[isList |-> TRUE, events |-> es] : es \in SeqsUpTo(OddsPool, MaxOdds)}

InitJoin ==
    /\ KeyIdle /\ ReduceIdle /\ FilterIdle /\ LiveIdle /\ IndexIdle
    /\ j_pc = "start"
    /\ j_cfg \in Range(TRACKING_CONFIG)
    /\ j_api_key \in BOOLEAN
    /\ j_feed = <<>> /\ j_events = <<>> /\ j_slams = FALSE
    /\ j_data = NotAList /\ j_odds_map = EmptyMap /\ j_built = FALSE
    /\ j_rows = <<>> /\ j_i = 1 /\ j_exc = ""

\* events = get_events_in_window(..); the two filters; "No recent or upcoming
\* events found." when nothing is left
FetchAndFilter ==
    /\ j_pc = "start"
    /\ \E feed \in SeqsUpTo(SchedPool, MaxSched) :
        LET slams == /\ j_cfg.team_name = NoneS
                     /\ IsSubstr(mens_tennis_slams, Lower(j_cfg.label))
            events == IF slams THEN filter_grand_slams(feed) ELSE feed
            filtered == filter_team_events(events, j_cfg.team_name)
        IN  /\ j_feed' = feed
            /\ j_slams' = slams
            /\ IF filtered.exc # "none"
               THEN j_pc' = "crashed" /\ j_exc' = filtered.exc /\ j_events' = <<>>
               ELSE /\ j_events' = filtered.val
                    /\ j_exc' = ""
                    /\ j_pc' = IF filtered.val = <<>> THEN "done" ELSE "odds"
    /\ UNCHANGED <<j_cfg, j_api_key, j_data, j_odds_map, j_built, j_rows, j_i>>
    /\ UNCHANGED <<keyVars, reduceVars, filterVars, liveVars, indexVars>>

\* odds_map = get_event_odds_map(..) if api_key and cfg["odds_sport_key"]
BuildIndex ==
    /\ j_pc = "odds"
    /\ IF j_api_key /\ j_cfg.odds_sport_key # NoneKey
       THEN \E data \in OddsPayloads :
                LET m == get_event_odds_map(data)
                IN  /\ j_data' = data
                    /\ IF m.exc # "none"
                       THEN j_pc' = "crashed" /\ j_exc' = m.exc
                            /\ UNCHANGED <<j_odds_map, j_built>>
                       ELSE j_pc' = "rows" /\ j_odds_map' = m.val /\ j_built' = TRUE
                            /\ UNCHANGED j_exc
       ELSE /\ j_pc' = "rows"
            /\ UNCHANGED <<j_data, j_odds_map, j_built, j_exc>>
    /\ UNCHANGED <<j_cfg, j_api_key, j_feed, j_events, j_slams, j_rows, j_i>>
    /\ UNCHANGED <<keyVars, reduceVars, filterVars, liveVars, indexVars>>

\* for e in events: rows.append(row)
JoinRow ==
    /\ j_pc = "rows"
    /\ j_i <= Len(j_events)
    /\ LET row == join_row(j_events[j_i], j_odds_map)
       IN  IF row.exc # "none"
           THEN j_pc' = "crashed" /\ j_exc' = row.exc /\ UNCHANGED <<j_rows, j_i>>
           ELSE /\ j_rows' = Append(j_rows, row.val)
                /\ j_i' = j_i + 1
                /\ UNCHANGED <<j_pc, j_exc>>
    /\ UNCHANGED <<j_cfg, j_api_key, j_feed, j_events, j_slams, j_data, j_odds_map, j_built>>
    /\ UNCHANGED <<keyVars, reduceVars, filterVars, liveVars, indexVars>>

\* st.dataframe(pd.DataFrame(rows))
Render ==
    /\ j_pc = "rows"
    /\ j_i > Len(j_events)
    /\ j_pc' = "done"
    /\ UNCHANGED <<j_cfg, j_api_key, j_feed, j_events, j_slams, j_data, j_odds_map,
                   j_built, j_rows, j_i, j_exc>>
    /\ UNCHANGED <<keyVars, reduceVars, filterVars, liveVars, indexVars>>

NextJoin == FetchAndFilter \/ BuildIndex \/ JoinRow \/ Render
SpecJoin == InitJoin /\ [][NextJoin]_vars

\* the pass ended: the table or the notice was shown, or an exception left it
Ended == j_pc \in {"done", "crashed"}

\* C2: no reconciliation function raises on missing or malformed input; here
\* filter_team_events, format_event_row, build_matchup_key_from_espn_event and
\* summarize_odds_for_event, called by the pass on the records of the feeds.
NeverRaises == j_pc # "crashed"

\* C8: for the category-based tennis tracker the grand-slam filter runs before
\* the team filter, so every event that reaches the rows has a GRAND_SLAM_KEYS
\* keyword in its name or short name.
TennisRowsAreSlams ==
    j_cfg.team_name = NoneS =>
        \A i \in 1..Len(j_rows) : is_grand_slam(j_events[i])

\* the Moneyline, Spread and Total fields a row carries
MarketFields(row) ==
    [k \in DOMAIN row \cap {"Moneyline", "Spread", "Total"} |-> row[k]]

\* the fields the join writes for an index entry
Attach(summary) ==
    [k \in {"Moneyline", "Spread", "Total"} |->
        CASE k = "Moneyline" -> SummaryGet(summary, "moneyline")
          [] k = "Spread" -> SummaryGet(summary, "spread")
          [] OTHER -> SummaryGet(summary, "total")]

\* the schedule event names an away and a home side, and the odds event has
\* the same two names in the same roles; both carry a parsable date
RoleName(s, role) ==
    (CHOOSE c \in Range(s.competitions[1].competitors) : c.homeAway = role).displayName
SameMatchup(s, o) ==
    /\ s.hasComps /\ s.competitions # <<>>
    /\ \A role \in {"away", "home"} :
          \E c \in Range(s.competitions[1].competitors) : c.homeAway = role
    /\ RoleName(s, "away") = o.away_team
    /\ RoleName(s, "home") = o.home_team
    /\ s.date.kind = "iso" /\ o.commence_time.kind = "iso"
SameDay(s, o) == s.date.day = o.commence_time.day
DayApart(s, o) == Abs(s.date.day - o.commence_time.day) = 1

OddsKey(o) ==
    _make_matchup_key(GetS(o.away_team, <<>>), GetS(o.home_team, <<>>), o.commence_time)

\* C3: a schedule event and an odds event with identical away/home names and
\* the same date get the odds event's summary attached to the row (the odds
\* event being the only one of the feed with its key); with the two dates one
\* day apart, and no other odds event on the schedule event's key, the row
\* gets no market field.
JoinAttaches ==
    (j_pc = "done" /\ j_data.isList) =>
        \A i \in 1..Len(j_rows) : \A j \in 1..Len(j_data.events) :
            LET s == j_events[i]
                o == j_data.events[j]
                summary == summarize_odds_for_event(o).val
            IN  SameMatchup(s, o) =>
                  /\ (/\ SameDay(s, o)
                      /\ \A n \in 1..Len(j_data.events) :
                            n # j => OddsKey(j_data.events[n]) # OddsKey(o))
                     => MarketFields(j_rows[i]) =
                          (IF DOMAIN summary = {} THEN EmptyMap ELSE Attach(summary))
                  /\ (/\ DayApart(s, o)
                      /\ \A n \in 1..Len(j_data.events) :
                            SameMatchup(s, j_data.events[n]) => ~SameDay(s, j_data.events[n]))
                     => DOMAIN MarketFields(j_rows[i]) = {}

JoinAttachesWitness ==
    /\ j_pc = "done" /\ j_data.isList /\ Len(j_data.events) = 1 /\ Len(j_rows) = 2
    /\ SameMatchup(j_events[1], j_data.events[1]) /\ SameDay(j_events[1], j_data.events[1])
    /\ "Moneyline" \in DOMAIN j_rows[1]
    /\ SameMatchup(j_events[2], j_data.events[1]) /\ DayApart(j_events[2], j_data.events[1])
    /\ DOMAIN MarketFields(j_rows[2]) = {}

IsSubseq(a, b) ==
    \E f \in [1..Len(a) -> 1..Len(b)] :
        /\ \A i \in 1..Len(a) : a[i] = b[f[i]]
        /\ \A i \in 1..Len(a) : \A k \in 1..Len(a) : i < k => f[i] < f[k]

\* the index the pass probes: that of the whole odds payload, or none
CompleteIndex ==
    IF j_data.isList THEN odds_map_loop(EmptyMap, j_data.events).val ELSE EmptyMap

\* C10: the rows are made one per surviving schedule event, in the order of
\* the schedule feed, against the completed odds index; a row whose matchup
\* key is in the index carries that entry's fields, any other row carries no
\* Moneyline, Spread or Total field.  (A pass that an exception ends shows no
\* table; the rows made until then obey the same rule.)
JoinRowsMirror ==
    /\ IsSubseq(j_events, j_feed)
    /\ Len(j_rows) <= Len(j_events)
    /\ j_pc = "done" => Len(j_rows) = Len(j_events)
    /\ j_rows # <<>> => j_odds_map = CompleteIndex
    /\ \A i \in 1..Len(j_rows) :
          LET key == build_matchup_key_from_espn_event(j_events[i]).val
              base == format_event_row(j_events[i]).val
          IN  /\ \A k \in DOMAIN base : j_rows[i][k] = base[k]
              /\ MarketFields(j_rows[i]) =
                    (IF DOMAIN CompleteIndex # {} /\ key \in DOMAIN CompleteIndex
                     THEN Attach(CompleteIndex[key]) ELSE EmptyMap)

JoinRowsMirrorWitness ==
    /\ j_pc = "done" /\ Len(j_rows) = 2 /\ Len(j_feed) = 2
    /\ j_feed[1].date.day > j_feed[2].date.day
    /\ j_rows[1]["Date/Time"] # j_rows[2]["Date/Time"]
    /\ "Total" \in DOMAIN j_rows[1]
    /\ DOMAIN MarketFields(j_rows[2]) = {}

-----------------------------------------------------------------------------
(* SpecLive: render_odds_summary for one tracked subject, with             *)
(* get_live_odds_internal reading the outright outcomes one at a time      *)

playoff == <<"p","l","a","y","o","f","f">>
make_playoffs == <<"m","a","k","e"," ","p","l","a","y","o","f","f","s">>
champion == <<"c","h","a","m","p","i","o","n">>
win == <<"w","i","n">>
title == <<"t","i","t","l","e">>

ToMakePlayoffs == <<"T","o"," ","M","a","k","e"," ","P","l","a","y","o","f","f","s">>
ToWinChampionship == <<"t","o"," ","w","i","n"," ","c","h","a","m","p","i","o","n","s","h","i","p">>
Podium == <<"P","o","d","i","u","m">>
MercedesAMG == <<"M","e","r","c","e","d","e","s","-","A","M","G">>

LiveNames == {Mercedes, MercedesAMG, Lakers, Penguins, MissingS}
LiveDescriptions == {ToMakePlayoffs, ToWinChampionship, Podium, MissingS}
LivePrices == {0, 200, -110}
LiveOutcomes == [name : LiveNames, description : LiveDescriptions, price : Opt(LivePrices)]
LiveMarketKeys == {"outrights", "h2h"}

NoLiveBest == [best_playoff |-> <<>>, best_title |-> <<>>]

\* the body of the loops of get_live_odds_internal, for one outcome of a
\* market with the given key
live_step(best, target, key, outcome) ==
    LET name == _normalize_team_name(GetS(outcome.name, <<>>))
        desc == Lower(GetS(outcome.description, <<>>))
        price == outcome.price
        matched == IsSubstr(target, name) \/ IsSubstr(name, target)
        isPlayoff == IsSubstr(playoff, desc) \/ IsSubstr(make_playoffs, desc)
        isTitle == \/ IsSubstr(champion, desc) \/ IsSubstr(win, desc)
                   \/ IsSubstr(title, desc) \/ key = "outrights"
        afterPlayoff == IF isPlayoff /\ best.best_playoff = <<>>
                        THEN [best EXCEPT !.best_playoff = price] ELSE best
    IN  IF price = <<>> \/ price = <<0>> THEN best          \* if not price: continue
        ELSE IF ~matched THEN best
        ELSE IF isTitle /\ best.best_title = <<>>
             THEN [afterPlayoff EXCEPT !.best_title = price]
             ELSE afterPlayoff

\* the dict get_live_odds_internal returns after its loops
live_result(best) ==
    IF best.best_playoff = <<>> /\ best.best_title = <<>>
    THEN [k \in {"status"} |-> "No market found"]
    ELSE [k \in {"status"}
                \cup (IF best.best_playoff # <<>> THEN {"playoff_market"} ELSE {})
                \cup (IF best.best_title # <<>> THEN {"championship_market"} ELSE {}) |->
            CASE k = "status" -> "OK"
              [] k = "playoff_market" -> FmtSigned(best.best_playoff[1])
              [] OTHER -> FmtSigned(best.best_title[1])]

InitLive ==
    /\ KeyIdle /\ ReduceIdle /\ FilterIdle /\ JoinIdle /\ IndexIdle
    /\ l_pc = "start"
    /\ l_cfg \in Range(TRACKING_CONFIG)
    /\ l_api_key \in BOOLEAN
    /\ l_isList = FALSE /\ l_best = NoLiveBest /\ l_n = 0
    /\ l_odds = EmptyMap /\ l_shown = ""

\* render_odds_summary up to the call, and the fetch of get_live_odds_internal
LiveStart ==
    /\ l_pc = "start"
    /\ IF l_cfg.odds_sport_key = NoneKey \/ ~l_api_key
       THEN /\ l_shown' = "hi cam"
            /\ l_pc' = "done"
            /\ UNCHANGED <<l_isList, l_odds>>
       ELSE \E isList \in BOOLEAN :
              /\ l_isList' = isList
              /\ l_odds' = IF isList THEN l_odds
                           ELSE [k \in {"status"} |-> "Unavailable"]
              /\ l_pc' = IF isList THEN "scan" ELSE "render"
              /\ UNCHANGED l_shown
    /\ UNCHANGED <<l_cfg, l_api_key, l_best, l_n>>
    /\ UNCHANGED <<keyVars, reduceVars, filterVars, joinVars, indexVars>>

\* for outcome in market.get("outcomes", [])
LiveOutcome ==
    /\ l_pc = "scan"
    /\ l_n < MaxLiveQuotes
    /\ \E key \in LiveMarketKeys : \E outcome \in LiveOutcomes :
          l_best' = live_step(l_best, _normalize_team_name(l_cfg.team_name), key, outcome)
    /\ l_n' = l_n + 1
    /\ UNCHANGED <<l_pc, l_cfg, l_api_key, l_isList, l_odds, l_shown>>
    /\ UNCHANGED <<keyVars, reduceVars, filterVars, joinVars, indexVars>>

\* the loops are over: return the status and the prices found
LiveReturn ==
    /\ l_pc = "scan"
    /\ l_odds' = live_result(l_best)
    /\ l_pc' = "render"
    /\ UNCHANGED <<l_cfg, l_api_key, l_isList, l_best, l_n, l_shown>>
    /\ UNCHANGED <<keyVars, reduceVars, filterVars, joinVars, indexVars>>

\* render_odds_summary after the call
LiveRender ==
    /\ l_pc = "render"
    /\ l_shown' = IF l_odds["status"] # "OK" THEN "hi cam" ELSE "metrics"
    /\ l_pc' = "done"
    /\ UNCHANGED <<l_cfg, l_api_key, l_isList, l_best, l_n, l_odds>>
    /\ UNCHANGED <<keyVars, reduceVars, filterVars, joinVars, indexVars>>

NextLive == LiveStart \/ LiveOutcome \/ LiveReturn \/ LiveRender
SpecLive == InitLive /\ [][NextLive]_vars

\* the status the live-odds path ended in, "" when it computed none
LiveStatus == IF "status" \in DOMAIN l_odds THEN l_odds["status"] ELSE ""

\* C9: the live-odds path ends in exactly one status: "Not applicable" without
\* an odds-feed key, "Missing API key" without a credential, "Unavailable" for
\* a payload that is not a list, "No market found" when no matching outcome
\* gave a price, "OK" iff a playoff or championship price resolved.
LiveStatusTaxonomy ==
    l_pc = "done" =>
        LiveStatus =
            CASE l_cfg.odds_sport_key = NoneKey -> "Not applicable"
              [] ~l_api_key -> "Missing API key"
              [] ~l_isList -> "Unavailable"
              [] l_best = NoLiveBest -> "No market found"
              [] OTHER -> "OK"

-----------------------------------------------------------------------------
(* SpecIndex: get_event_odds_map, one odds event of the payload per step   *)

\* the odds events of a payload: those of OddsPool, and a second event with
\* the key of the first and another summary
IndexPool ==
    OddsPool \cup
    {Odds(Penguins, Rangers, IsoOn(1, "+00:00"),
          <<Book("totals", <<Quote(OverName, <<150>>, <<3>>)>>)>>)}

InitIndex ==
    /\ KeyIdle /\ ReduceIdle /\ FilterIdle /\ JoinIdle /\ LiveIdle
    /\ i_pc = "start"
    /\ i_seen = <<>> /\ i_out = EmptyMap /\ i_exc = ""

\* data = fetch_json(..); if not isinstance(data, list): return {}
IndexFetch ==
    /\ i_pc = "start"
    /\ \E isList \in BOOLEAN :
          /\ i_pc' = IF isList THEN "loop" ELSE "returned"
          /\ i_out' = IF isList THEN i_out ELSE get_event_odds_map(NotAList).val
    /\ UNCHANGED <<i_seen, i_exc>>
    /\ UNCHANGED <<keyVars, reduceVars, filterVars, joinVars, liveVars>>

\* for event in data: one iteration
IndexEvent ==
    /\ i_pc = "loop"
    /\ Len(i_seen) < MaxIndexEvents
    /\ \E event \in IndexPool :
          LET r == odds_map_loop(i_out, <<event>>)
          IN  IF r.exc # "none"
              THEN i_pc' = "raised" /\ i_exc' = r.exc /\ UNCHANGED <<i_seen, i_out>>
              ELSE /\ i_out' = r.val
                   /\ i_seen' = Append(i_seen, event)
                   /\ UNCHANGED <<i_pc, i_exc>>
    /\ UNCHANGED <<keyVars, reduceVars, filterVars, joinVars, liveVars>>

\* return out
IndexReturn ==
    /\ i_pc = "loop"
    /\ i_pc' = "returned"
    /\ UNCHANGED <<i_seen, i_out, i_exc>>
    /\ UNCHANGED <<keyVars, reduceVars, filterVars, joinVars, liveVars>>

NextIndex == IndexFetch \/ IndexEvent \/ IndexReturn
SpecIndex == InitIndex /\ [][NextIndex]_vars

\* the events processed so far that have the key and a non-empty summary
LiveOn(key) ==
    {n \in 1..Len(i_seen) :
        /\ OddsKey(i_seen[n]) = key
        /\ DOMAIN summarize_odds_for_event(i_seen[n]).val # {}}

Last(S) == CHOOSE n \in S : \A k \in S : k <= n

\* C11: after any sequence of odds events, the index maps each matchup key to
\* the summary of the last event in feed order that has the key and a
\* non-empty summary; an event with an empty summary neither creates nor
\* changes nor removes an entry, and no value of the index is empty.
IndexLastWins ==
    /\ \A key \in DOMAIN i_out :
          /\ DOMAIN i_out[key] # {}
          /\ \E n \in 1..Len(i_seen) : OddsKey(i_seen[n]) = key
    /\ \A n \in 1..Len(i_seen) :
          LET key == OddsKey(i_seen[n])
          IN  IF LiveOn(key) = {}
              THEN key \notin DOMAIN i_out
              ELSE /\ key \in DOMAIN i_out
                   /\ i_out[key] = summarize_odds_for_event(i_seen[Last(LiveOn(key))]).val

IndexLastWinsWitness ==
    /\ i_pc = "returned" /\ Len(i_seen) = 3
    /\ OddsKey(i_seen[1]) = OddsKey(i_seen[2])
    /\ OddsKey(i_seen[2]) = OddsKey(i_seen[3])
    /\ LiveOn(OddsKey(i_seen[1])) = {1, 2}
    /\ summarize_odds_for_event(i_seen[1]).val # summarize_odds_for_event(i_seen[2]).val
    /\ i_out[OddsKey(i_seen[1])] = summarize_odds_for_event(i_seen[2]).val

====
